---- MODULE Spec2Model ----
(***************************************************************************)
(* lunch-check: the two pipelines of the repository.                       *)
(*   scrape_lunch.py : scrape_data() -> inject_to_app(data)                *)
(*   enrich_lunch.py : read CSV -> enrichment loop -> render_template()    *)
(* Text is modelled as a sequence of tokens (one token per character or    *)
(* per fixed marker), so that json.dumps, re.sub, str.split and            *)
(* str.replace are computed on the text and not assumed.                   *)
(***************************************************************************)
EXTENDS Integers, Sequences, FiniteSets, TLC

VARIABLES
    entry,      \* which entry point runs: "scrape" | "inject" | "enrich" | "render"
    pc,         \* position of the running function
    console,    \* what print() has written, in order
    html,       \* scrape_data: the five match arrays found in the POST response
    data,       \* scrape_data: the list `data`; main: the value scrape_data returned
    i,          \* scrape_data: the loop index (0-based, as range(min_len))
    lookups,    \* every outbound lookup issued, in order: <<kind, record number>>
    host,       \* APP_FILE on disk: [exists, content]
    hostLog,    \* APP_FILE at the start and after each completed inject_to_app call
    items,      \* enrich_lunch: the list `items`
    k,          \* enrich_lunch.main: number of items already enriched
    geoLog,     \* per record, what its lookups answered (kept for the properties)
    tplFile,    \* TEMPLATE_FILE on disk: [exists, content]
    outFile,    \* OUTPUT_FILE on disk: [written, content]
    rt          \* render_template locals: pre_loop, loop_content, post_loop, rendered_items, n

vars == <<entry, pc, console, html, data, i, lookups, host, hostLog,
          items, k, geoLog, tplFile, outFile, rt>>

----------------------------------------------------------------------------
(* Bounds of the model *)

MaxLen == 2      \* longest match array of the scraped page
MaxData == 2     \* longest record list handed to inject_to_app directly
MaxDoc == 3      \* longest host document, in tokens
MaxItems == 2    \* most CSV rows
MaxTpl == 4      \* longest template, in tokens

----------------------------------------------------------------------------
(* Generic helpers *)

None == <<>>
Some(v) == <<v>>

Min(a, b) == IF a <= b THEN a ELSE b

SeqsUpTo(S, n) == UNION {[1..m -> S] : m \in 0..n}

RECURSIVE Flatten(_)
Flatten(ss) == IF ss = <<>> THEN <<>> ELSE Head(ss) \o Flatten(Tail(ss))

Contains(s, x) == \E j \in 1..Len(s) : s[j] = x

Count(s, x) == Cardinality({j \in 1..Len(s) : s[j] = x})

\* str.strip(): drop leading and trailing whitespace tokens
RECURSIVE LStrip(_)
LStrip(s) == IF s # <<>> /\ Head(s) = " " THEN LStrip(Tail(s)) ELSE s

RECURSIVE RStrip(_)
RStrip(s) ==
    IF s # <<>> /\ s[Len(s)] = " " THEN RStrip(SubSeq(s, 1, Len(s) - 1)) ELSE s

Strip(s) == RStrip(LStrip(s))

----------------------------------------------------------------------------
(* The geocoding service (Photon), as both pipelines see it.               *)
(* A lookup either raises (timeout, connection error) or returns a status  *)
(* and a body; the body is a feature collection or something json() or     *)
(* the ['features'] subscript raises on.                                   *)

NoProps == [present |-> FALSE, cuisine |-> None, osm_value |-> None]

PropsVals ==
    {NoProps} \cup
    {[present |-> TRUE, cuisine |-> c, osm_value |-> o] :
        c \in {None, Some("thai")}, o \in {None, Some("restaurant"), Some("thai")}}

\* geometry.coordinates as sent: [lon, lat], possibly short. The local-file
\* pipeline tests the numbers for truth, so its answers include a zero.
ScrapeCoordLists == {<<>>, <<8>>, <<8, 47>>}
EnrichCoordLists == {<<>>, <<8>>, <<8, 47>>, <<0, 47>>, <<8, 0>>}

Features(coordLists) == [coordinates : coordLists, properties : PropsVals]

BadBody == [valid |-> FALSE, features |-> <<>>]

GeoBodies(coordLists) ==
    {BadBody} \cup
    {[valid |-> TRUE, features |-> fs] :
        fs \in {<<>>} \cup {<<f>> : f \in Features(coordLists)}}

GeoResponses(coordLists) ==
    {[raises |-> TRUE, status |-> 0, body |-> BadBody],
     [raises |-> FALSE, status |-> 500, body |-> BadBody]} \cup
    {[raises |-> FALSE, status |-> 200, body |-> b] : b \in GeoBodies(coordLists)}

----------------------------------------------------------------------------
(* scrape_lunch.py : scrape_data *)

GenericOsm == {"yes", "restaurant", "fast_food", "cafe", "bar"}

\* str.capitalize() on the cuisine tags of the model
Capitalize(s) ==
    CASE s = "thai" -> "Thai"
      [] s = "restaurant" -> "Restaurant"
      [] OTHER -> s

\* lines 150-157: the cuisine of a feature's properties
CuisineOf(props) ==
    LET c1 == props.cuisine
        c_val == IF c1 # None THEN c1
                 ELSE IF props.osm_value # None /\ props.osm_value[1] \notin GenericOsm
                      THEN props.osm_value
                      ELSE None
    IN  IF c_val # None THEN Capitalize(c_val[1]) ELSE "International"

\* lines 137-162: the try block of one record. Each assignment that ran
\* before an exception keeps its effect; the handler then sets the cuisine.
EnrichScraped(item, resp) ==
    IF resp.raises \/ (resp.status = 200 /\ ~resp.body.valid)
    THEN [item EXCEPT !.cuisine = "International"]
    ELSE IF resp.status # 200
    THEN item
    ELSE IF resp.body.features = <<>>
    THEN [item EXCEPT !.cuisine = "International"]
    ELSE LET feat == resp.body.features[1]
             cs == feat.coordinates
         IN  IF Len(cs) = 0
             THEN [item EXCEPT !.cuisine = "International"]
             ELSE IF Len(cs) = 1
             THEN [item EXCEPT !.lon = Some(cs[1]), !.cuisine = "International"]
             ELSE IF ~feat.properties.present
             THEN [item EXCEPT !.lon = Some(cs[1]), !.lat = Some(cs[2]),
                               !.cuisine = "International"]
             ELSE [item EXCEPT !.lon = Some(cs[1]), !.lat = Some(cs[2]),
                               !.cuisine = CuisineOf(feat.properties)]

\* whether the try block of lines 137-162 ended in its except clause
EnrichRaised(resp) ==
    \/ resp.raises
    \/ resp.status = 200 /\ ~resp.body.valid
    \/ /\ resp.status = 200 /\ resp.body.valid /\ resp.body.features # <<>>
       /\ \/ Len(resp.body.features[1].coordinates) < 2
          \/ ~resp.body.features[1].properties.present

\* a lookup wrapped in a retry: the request goes out twice
IssueWithRetry(log, kind, n) == Append(Append(log, <<kind, n>>), <<kind, n>>)

\* the outbound request of one lookup (requests.get), noted in the log
Issue(log, kind, n) == Append(log, <<kind, n>>)

\* whether the answer is one of the failures of the geocoding step: an
\* exception, a status other than 200, no feature, a malformed payload
GeoFailed(resp) ==
    \/ resp.raises \/ resp.status # 200 \/ ~resp.body.valid
    \/ resp.body.features = <<>>
    \/ Len(resp.body.features[1].coordinates) < 2
    \/ ~resp.body.features[1].properties.present

\* the shortest of all five arrays, the link column included
MinLenOfFive(h) ==
    Min(Min(Min(Len(h.names), Len(h.addrs)), Min(Len(h.zips), Len(h.cities))),
        Len(h.urls))

\* line 115
MinLen(h) == Min(Min(Len(h.names), Len(h.addrs)), Min(Len(h.zips), Len(h.cities)))

\* lines 120-121
WebsiteAt(h, n) ==
    LET website == IF n < Len(h.urls) THEN h.urls[n + 1] ELSE <<>>
    IN  IF Contains(website, "javascript:") THEN <<>> ELSE website

\* lines 124-134
BasicItem(h, n) ==
    [Restaurant |-> Strip(h.names[n + 1]),
     Adresse |-> Strip(h.addrs[n + 1]),
     PLZ |-> Strip(h.zips[n + 1]),
     Ort |-> Strip(h.cities[n + 1]),
     Website |-> Strip(WebsiteAt(h, n)),
     cuisine |-> "None",
     lat |-> None,
     lon |-> None,
     walkingTime |-> 999]

\* lines 83-102 raise (network error, HTTP error status): line 173-175
FetchFails ==
    /\ entry = "scrape" /\ pc = "fetch"
    /\ console' = console \o <<"Fetching data", "Error scraping">>
    /\ data' = <<>>
    /\ pc' = "main_if"
    /\ UNCHANGED <<entry, html, i, lookups, host, hostLog, items, k, geoLog,
                   tplFile, outFile, rt>>

\* lines 83-117: the page arrives and the five arrays are extracted
FetchOk ==
    /\ entry = "scrape" /\ pc = "fetch"
    /\ console' = console \o <<"Fetching data", "Requesting 500 items",
                               "Found items", "Enriching items">>
    /\ data' = <<>>
    /\ i' = 0
    /\ pc' = "loop"
    /\ UNCHANGED <<entry, html, lookups, host, hostLog, items, k, geoLog,
                   tplFile, outFile, rt>>

\* lines 119-169: one iteration of the loop, the geocoding answer being resp
ScrapeRecord(resp) ==
    /\ entry = "scrape" /\ pc = "loop" /\ i < MinLen(html)
    /\ lookups' = Issue(lookups, "geocode", i)
    /\ geoLog' = Append(geoLog, [failed |-> GeoFailed(resp)])
    /\ data' = Append(data, EnrichScraped(BasicItem(html, i), resp))
    /\ console' = console
                    \o (IF EnrichRaised(resp) THEN <<"Enrichment error">> ELSE <<>>)
                    \o (IF i % 10 = 0 THEN <<"Processed">> ELSE <<>>)
    /\ i' = i + 1
    /\ UNCHANGED <<entry, pc, html, host, hostLog, items, k, tplFile, outFile, rt>>

\* line 171: the loop is over, scrape_data returns data to main (line 208)
ScrapeReturn ==
    /\ entry = "scrape" /\ pc = "loop" /\ i >= MinLen(html)
    /\ pc' = "main_if"
    /\ UNCHANGED <<entry, console, html, data, i, lookups, host, hostLog,
                   items, k, geoLog, tplFile, outFile, rt>>

----------------------------------------------------------------------------
(* scrape_lunch.py : inject_to_app                                         *)
(* Host-document tokens: "let=[" is the text `let appData = [`, "]" and    *)
(* ";" are those characters, "x" is any other text. Record strings are     *)
(* sequences of characters: letters, "]", ";", "\\" (one backslash),       *)
(* "\"" (a double quote), "tab" (U+0009), "ctl" (U+0001), " ".             *)

\* json.dumps of one string character (ensure_ascii=False)
JsonChar(c) ==
    CASE c = "\\" -> <<"\\", "\\">>
      [] c = "\"" -> <<"\\", "\"">>
      [] c = "tab" -> <<"\\", "t">>
      [] c = "ctl" -> <<"\\", "u0001">>
      [] OTHER -> <<c>>

RECURSIVE JsonString(_)
JsonString(s) == IF s = <<>> THEN <<>> ELSE JsonChar(Head(s)) \o JsonString(Tail(s))

\* json.dumps of one record: its strings escaped, every other value one token
JsonItem(item) ==
    <<"{">> \o JsonString(item.Restaurant)
      \o <<",">> \o JsonString(item.Adresse)
      \o <<",">> \o JsonString(item.PLZ)
      \o <<",">> \o JsonString(item.Ort)
      \o <<",">> \o JsonString(item.Website)
      \o <<",", item.cuisine, ",", ToString(item.lat), ",", ToString(item.lon),
           ",", ToString(item.walkingTime), "}">>

RECURSIVE JsonItems(_)
JsonItems(d) ==
    IF d = <<>> THEN <<>>
    ELSE IF Len(d) = 1 THEN JsonItem(d[1])
    ELSE JsonItem(d[1]) \o <<",">> \o JsonItems(Tail(d))

\* line 188
JsonDumps(d) == <<"[">> \o JsonItems(d) \o <<"]">>

\* line 194: the replacement string `let appData = {json_data};`
ReplString(d) == <<"let=[">> \o Tail(JsonDumps(d)) \o <<";">>

\* re.sub reads its replacement as a template: a backslash escapes the next
\* character. `\\` is one backslash, `\t` a tab, a backslash before a
\* non-letter stays as written, and a backslash before an unknown letter
\* (the `\u` of `\u0001`) is the error "bad escape".
RECURSIVE TemplateOk(_)
TemplateOk(r) ==
    IF r = <<>> THEN TRUE
    ELSE IF Head(r) # "\\" THEN TemplateOk(Tail(r))
    ELSE IF Len(r) = 1 THEN FALSE
    ELSE IF r[2] = "u0001" THEN FALSE
    ELSE TemplateOk(Tail(Tail(r)))

RECURSIVE TemplateExpand(_)
TemplateExpand(r) ==
    IF r = <<>> THEN <<>>
    ELSE IF Head(r) # "\\" \/ Len(r) = 1 THEN <<Head(r)>> \o TemplateExpand(Tail(r))
    ELSE IF r[2] = "\\" THEN <<"\\">> \o TemplateExpand(Tail(Tail(r)))
    ELSE IF r[2] = "t" THEN <<"tab">> \o TemplateExpand(Tail(Tail(r)))
    ELSE <<"\\", r[2]>> \o TemplateExpand(Tail(Tail(r)))

\* the end of the shortest match of `\[.*?\];` opened at position p: the
\* position of the ";" of the first "];" after p, or 0 if there is none
MatchEnd(doc, p) ==
    LET ends == {j \in (p + 2)..Len(doc) : doc[j - 1] = "]" /\ doc[j] = ";"}
    IN  IF ends = {} THEN 0 ELSE CHOOSE j \in ends : \A j2 \in ends : j <= j2

\* line 192-197: re.sub over the whole document, every match replaced,
\* scanning left to right from position p
RECURSIVE ReSubFrom(_, _, _)
ReSubFrom(doc, text, p) ==
    IF p > Len(doc) THEN <<>>
    ELSE IF doc[p] = "let=[" /\ MatchEnd(doc, p) # 0
    THEN text \o ReSubFrom(doc, text, MatchEnd(doc, p) + 1)
    ELSE <<doc[p]>> \o ReSubFrom(doc, text, p + 1)

ReSub(doc, text) == ReSubFrom(doc, text, 1)

\* lines 184-203 on an existing file: the new content of APP_FILE
Injected(content, d) == ReSub(content, TemplateExpand(ReplString(d)))

\* how many inject_to_app calls the entry point makes
InjectCalls == IF entry = "inject" THEN 2 ELSE 1

AfterInject == IF Len(hostLog) < InjectCalls THEN "inject"
               ELSE IF entry = "scrape" THEN "main_success" ELSE "done"

\* lines 178-180: APP_FILE does not exist
InjectMissing ==
    /\ pc = "inject" /\ ~host.exists
    /\ console' = Append(console, "Error: not found")
    /\ hostLog' = Append(hostLog, host)
    /\ pc' = AfterInject
    /\ UNCHANGED <<entry, html, data, i, lookups, host, items, k, geoLog,
                   tplFile, outFile, rt>>

\* lines 182-205: read, substitute, write back
InjectWrite ==
    /\ pc = "inject" /\ host.exists
    /\ TemplateOk(ReplString(data))
    /\ host' = [host EXCEPT !.content = Injected(host.content, data)]
    /\ console' = console \o <<"Injecting items", "Injection complete.">>
    /\ hostLog' = Append(hostLog, host')
    /\ pc' = AfterInject
    /\ UNCHANGED <<entry, html, data, i, lookups, items, k, geoLog,
                   tplFile, outFile, rt>>

\* line 192: re.sub raises on the replacement string; nothing catches it
InjectBadEscape ==
    /\ pc = "inject" /\ host.exists
    /\ ~TemplateOk(ReplString(data))
    /\ console' = Append(console, "Injecting items")
    /\ pc' = "crashed"
    /\ UNCHANGED <<entry, html, data, i, lookups, host, hostLog, items, k,
                   geoLog, tplFile, outFile, rt>>

\* line 184 or 202: open() raises (permissions, a directory in the way);
\* nothing catches it
InjectIOError ==
    /\ pc = "inject" /\ host.exists
    /\ console' = Append(console, "Injecting items")
    /\ pc' = "crashed"
    /\ UNCHANGED <<entry, html, data, i, lookups, host, hostLog, items, k,
                   geoLog, tplFile, outFile, rt>>

----------------------------------------------------------------------------
(* scrape_lunch.py : main *)

\* lines 209-210: data is not empty, inject_to_app is called
MainInject ==
    /\ entry = "scrape" /\ pc = "main_if" /\ data # <<>>
    /\ pc' = "inject"
    /\ UNCHANGED <<entry, console, html, data, i, lookups, host, hostLog,
                   items, k, geoLog, tplFile, outFile, rt>>

\* line 211
MainSuccess ==
    /\ entry = "scrape" /\ pc = "main_success"
    /\ console' = Append(console, "Success!")
    /\ pc' = "done"
    /\ UNCHANGED <<entry, html, data, i, lookups, host, hostLog, items, k,
                   geoLog, tplFile, outFile, rt>>

\* lines 212-213
MainNoData ==
    /\ entry = "scrape" /\ pc = "main_if" /\ data = <<>>
    /\ console' = Append(console, "No data found.")
    /\ pc' = "done"
    /\ UNCHANGED <<entry, html, data, i, lookups, host, hostLog, items, k,
                   geoLog, tplFile, outFile, rt>>

----------------------------------------------------------------------------
(* enrich_lunch.py : geocode_address, get_walking_time *)

LIMIT == 50

NoCoords == [lat |-> None, lon |-> None]

\* lines 53-66: (lat, lon) as floats, or (None, None)
GeocodeAddress(resp) ==
    IF resp.raises \/ resp.status # 200 \/ ~resp.body.valid THEN NoCoords
    ELSE IF resp.body.features = <<>> THEN NoCoords
    ELSE LET coords == resp.body.features[1].coordinates
         IN  IF Len(coords) < 2 THEN NoCoords
             ELSE [lat |-> Some(coords[2]), lon |-> Some(coords[1])]

\* lines 64-65: whether geocode_address printed "Geocoding error"
GeocodeRaised(resp) ==
    \/ resp.raises
    \/ resp.status = 200 /\ ~resp.body.valid
    \/ /\ resp.status = 200 /\ resp.body.valid /\ resp.body.features # <<>>
       /\ Len(resp.body.features[1].coordinates) < 2

\* Python truthiness of an optional float: None and 0.0 are false
Truthy(x) == x # None /\ x[1] # 0

\* The routing service (OSRM): raises, or a status and a body
\* {code, routes: [{duration}]}; a duration of None is one int() cannot divide
Durations == {Some(59), Some(150), Some(59940), None}

RouteBodies ==
    {[valid |-> FALSE, code |-> "", routes |-> <<>>]} \cup
    {[valid |-> TRUE, code |-> c, routes |-> rs] :
        c \in {"Ok", "NoRoute"},
        rs \in {<<>>} \cup {<<[duration |-> d]>> : d \in Durations}}

RouteResponses ==
    {[raises |-> TRUE, status |-> 0, body |-> [valid |-> FALSE, code |-> "", routes |-> <<>>]],
     [raises |-> FALSE, status |-> 500, body |-> [valid |-> FALSE, code |-> "", routes |-> <<>>]]}
    \cup {[raises |-> FALSE, status |-> 200, body |-> b] : b \in RouteBodies}

\* lines 78-83: the lookup succeeded and a duration could be converted
RouteOk(resp) ==
    /\ ~resp.raises /\ resp.status = 200 /\ resp.body.valid
    /\ resp.body.code = "Ok" /\ resp.body.routes # <<>>
    /\ resp.body.routes[1].duration # None

\* line 82: int(duration_seconds / 60)
Minutes(resp) == resp.body.routes[1].duration[1] \div 60

\* lines 84-85: whether get_walking_time printed "Routing error"
RouteRaised(resp) ==
    \/ resp.raises
    \/ resp.status = 200 /\ ~resp.body.valid
    \/ /\ resp.status = 200 /\ resp.body.valid /\ resp.body.code = "Ok"
       /\ resp.body.routes # <<>> /\ resp.body.routes[1].duration = None

\* lines 68-87, start_coords being the fixed user_coords: (string, minutes)
GetWalkingTime(end_coords, resp) ==
    IF RouteOk(resp)
    THEN [str |-> ToString(Minutes(resp)) \o " min", raw |-> Minutes(resp)]
    ELSE [str |-> "N/A", raw |-> 999]

\* lines 197-198: quote(dest) spliced into the maps URL
MapsUrl(item) == <<"maps?destination=">> \o item.Adresse \o <<"%2C%20">> \o item.Ort

\* lines 189-198: the three keys the loop adds to an item
Enriched(item, str, raw) ==
    [item EXCEPT !.walking_time = str, !.walking_time_raw = Some(raw),
                 !.maps_url = MapsUrl(item)]

----------------------------------------------------------------------------
(* enrich_lunch.py : main *)

\* lines 161-164: find_input_file found no CSV
EnrichNoInput ==
    /\ entry = "enrich" /\ pc = "e_start"
    /\ console' = console \o <<"Starting", "No input file found">>
    /\ items' = <<>>
    /\ pc' = "done"
    /\ UNCHANGED <<entry, html, data, i, lookups, host, hostLog, k, geoLog,
                   tplFile, outFile, rt>>

\* lines 167-173 with read_csv raising inside (lines 101-103): no rows
EnrichReadFails ==
    /\ entry = "enrich" /\ pc = "e_start"
    /\ console' = console \o <<"Starting", "Error reading CSV", "Loaded",
                               "No items found in CSV.">>
    /\ items' = <<>>
    /\ pc' = "done"
    /\ UNCHANGED <<entry, html, data, i, lookups, host, hostLog, k, geoLog,
                   tplFile, outFile, rt>>

\* lines 167-178: the rows are read and cut to LIMIT
EnrichRead ==
    /\ entry = "enrich" /\ pc = "e_start"
    /\ items' = SubSeq(items, 1, Min(LIMIT, Len(items)))
    /\ console' = console \o <<"Starting", "Loaded">>
                    \o (IF items' = <<>> THEN <<"No items found in CSV.">>
                        ELSE <<"Calculating walking time">>)
    /\ k' = 0
    /\ pc' = IF items' = <<>> THEN "done" ELSE "e_loop"
    /\ UNCHANGED <<entry, html, data, i, lookups, host, hostLog, geoLog,
                   tplFile, outFile, rt>>

\* lines 180-198 for one item whose coordinates pass `if lat and lon`
EnrichRouted(geo, route) ==
    /\ entry = "enrich" /\ pc = "e_loop" /\ k < Len(items)
    /\ LET c == GeocodeAddress(geo)
           w == GetWalkingTime(c, route)
       IN  /\ Truthy(c.lat) /\ Truthy(c.lon)
           /\ items' = [items EXCEPT ![k + 1] = Enriched(@, w.str, w.raw)]
           /\ geoLog' = Append(geoLog, [coords |-> c, routed |-> TRUE,
                                        ok |-> RouteOk(route),
                                        minutes |-> IF RouteOk(route)
                                                    THEN Minutes(route) ELSE 0])
    /\ lookups' = Issue(Issue(lookups, "geocode", k), "route", k)
    /\ console' = console \o (IF RouteRaised(route) THEN <<"Routing error">> ELSE <<>>)
    /\ k' = k + 1
    /\ UNCHANGED <<entry, pc, html, data, i, host, hostLog, tplFile, outFile, rt>>

\* lines 180-198 for one item whose coordinates fail `if lat and lon`
EnrichUnrouted(geo) ==
    /\ entry = "enrich" /\ pc = "e_loop" /\ k < Len(items)
    /\ LET c == GeocodeAddress(geo)
       IN  /\ ~(Truthy(c.lat) /\ Truthy(c.lon))
           /\ items' = [items EXCEPT ![k + 1] = Enriched(@, "?", 999)]
           /\ geoLog' = Append(geoLog, [coords |-> c, routed |-> FALSE,
                                        ok |-> FALSE, minutes |-> 0])
    /\ lookups' = Issue(lookups, "geocode", k)
    /\ console' = console \o (IF GeocodeRaised(geo) THEN <<"Geocoding error">> ELSE <<>>)
    /\ k' = k + 1
    /\ UNCHANGED <<entry, pc, html, data, i, host, hostLog, tplFile, outFile, rt>>

\* line 201: the loop is over, render_template(items) is called
EnrichRender ==
    /\ entry = "enrich" /\ pc = "e_loop" /\ k >= Len(items)
    /\ pc' = "render"
    /\ UNCHANGED <<entry, console, html, data, i, lookups, host, hostLog,
                   items, k, geoLog, tplFile, outFile, rt>>

----------------------------------------------------------------------------
(* enrich_lunch.py : render_template                                       *)
(* Template tokens: the two loop markers, the placeholders, "x" for any    *)
(* other text.                                                             *)

start_tag == "{% for item in items %}"
end_tag == "{% endfor %}"

\* str.replace(old, new) where old is one token and new a text
Replace(s, old, new) ==
    Flatten([j \in 1..Len(s) |-> IF s[j] = old THEN new ELSE <<s[j]>>])

\* str.split(sep): the pieces between the occurrences of sep
RECURSIVE SplitFrom(_, _, _, _)
SplitFrom(s, sep, p, piece) ==
    IF p > Len(s) THEN <<piece>>
    ELSE IF s[p] = sep THEN <<piece>> \o SplitFrom(s, sep, p + 1, <<>>)
    ELSE SplitFrom(s, sep, p + 1, Append(piece, s[p]))

Split(s, sep) == SplitFrom(s, sep, 1, <<>>)

\* unpackings that take the first two pieces and ignore any others
UnpacksLoose(template) ==
    /\ Len(Split(template, start_tag)) >= 2
    /\ Len(Split(Split(template, start_tag)[2], end_tag)) >= 2

\* lines 123-124: both tuple unpackings find exactly two pieces
Unpacks(template) ==
    /\ Len(Split(template, start_tag)) = 2
    /\ Len(Split(Split(template, start_tag)[2], end_tag)) = 2

\* lines 129-141: one rendered copy of the loop body
RenderRow(loop_content, item) ==
    LET h1 == Replace(loop_content, "{{ item.walking_time }}", <<item.walking_time>>)
        h2 == Replace(h1, "{{ item.walking_time_raw }}",
                      <<ToString(item.walking_time_raw[1])>>)
        h3 == Replace(h2, "{{ item.maps_url }}", item.maps_url)
        h4 == Replace(h3, "{{ item.Restaurant }}", item.Restaurant)
        h5 == Replace(h4, "{{ item.Adresse }}", item.Adresse)
    IN  Replace(h5, "{{ item.Ort }}", item.Ort)

\* lines 145-147
FinalHtml(pre_loop, rendered_items, post_loop, n) ==
    Replace(Replace(pre_loop \o rendered_items \o post_loop,
                    "{{ generation_date }}", <<"<today>">>),
            "{{ items_count }}", <<ToString(n)>>)

\* rows collected newest first
AccumulateFront(rendered_items, item_html) == item_html \o rendered_items

\* line 143: rendered_items += item_html
Accumulate(rendered_items, item_html) == rendered_items \o item_html

RenderVars == <<entry, html, data, i, lookups, host, hostLog, items, k, geoLog, tplFile>>

\* lines 109-111: no template file
RenderNoTemplate ==
    /\ pc = "render" /\ ~tplFile.exists
    /\ console' = console \o <<"Rendering items", "Error: Template file not found">>
    /\ pc' = "done"
    /\ UNCHANGED <<RenderVars, outFile, rt>>

\* line 113 raises (the file cannot be read): caught at line 154
RenderReadFails ==
    /\ pc = "render" /\ tplFile.exists
    /\ console' = console \o <<"Rendering items", "Error rendering template: OSError">>
    /\ pc' = "done"
    /\ UNCHANGED <<RenderVars, outFile, rt>>

\* lines 119-121: a marker is missing
RenderNoTags ==
    /\ pc = "render" /\ tplFile.exists
    /\ ~Contains(tplFile.content, start_tag) \/ ~Contains(tplFile.content, end_tag)
    /\ console' = console \o <<"Rendering items", "Template tags not found.">>
    /\ pc' = "done"
    /\ UNCHANGED <<RenderVars, outFile, rt>>

\* lines 123-124 raise ValueError (not exactly two pieces): caught at line 154
RenderSplitFails ==
    /\ pc = "render" /\ tplFile.exists
    /\ Contains(tplFile.content, start_tag) /\ Contains(tplFile.content, end_tag)
    /\ ~Unpacks(tplFile.content)
    /\ console' = console \o <<"Rendering items", "Error rendering template: ValueError">>
    /\ pc' = "done"
    /\ UNCHANGED <<RenderVars, outFile, rt>>

\* lines 113-126: the template is read and cut in three
RenderSplit ==
    /\ pc = "render" /\ tplFile.exists
    /\ Contains(tplFile.content, start_tag) /\ Contains(tplFile.content, end_tag)
    /\ Unpacks(tplFile.content)
    /\ LET parts == Split(tplFile.content, start_tag)
           rest == Split(parts[2], end_tag)
       IN  rt' = [pre_loop |-> parts[1], loop_content |-> rest[1],
                  post_loop |-> rest[2], rendered_items |-> <<>>, n |-> 0]
    /\ console' = Append(console, "Rendering items")
    /\ pc' = "render_loop"
    /\ UNCHANGED <<RenderVars, outFile>>

\* lines 128-143: one iteration of the loop over items
RenderItem ==
    /\ pc = "render_loop" /\ rt.n < Len(items)
    /\ rt' = [rt EXCEPT
                !.rendered_items =
                    Accumulate(@, RenderRow(rt.loop_content, items[rt.n + 1])),
                !.n = @ + 1]
    /\ UNCHANGED <<RenderVars, pc, console, outFile>>

\* lines 145-152: the document is assembled and written
RenderWrite ==
    /\ pc = "render_loop" /\ rt.n >= Len(items)
    /\ outFile' = [written |-> TRUE,
                   content |-> FinalHtml(rt.pre_loop, rt.rendered_items,
                                         rt.post_loop, Len(items))]
    /\ console' = Append(console, "Widget generated successfully")
    /\ pc' = "done"
    /\ UNCHANGED <<RenderVars, rt>>

\* line 150 raises (the output cannot be opened): caught at line 154
RenderWriteFails ==
    /\ pc = "render_loop" /\ rt.n >= Len(items)
    /\ console' = Append(console, "Error rendering template: OSError")
    /\ pc' = "done"
    /\ UNCHANGED <<RenderVars, outFile, rt>>

----------------------------------------------------------------------------
(* Inputs *)

\* the n-th restaurant of the directory, n = 1, 2, ...
NameOf(n) == <<"R" \o ToString(n)>>

\* what the page's name labels hold: the name with the markup's padding
HtmlNames(n) == [j \in 1..n |-> <<" ">> \o NameOf(j) \o <<" ">>]

Fill(n) == [j \in 1..n |-> <<"s">>]

\* the page's link column: real links, every second one a script handler
HtmlUrls(n) ==
    [j \in 1..n |-> IF j % 2 = 0 THEN <<"javascript:", "go">> ELSE <<" ", "www">>]

Pages ==
    {[names |-> HtmlNames(l1), addrs |-> Fill(l2), zips |-> Fill(l3),
      cities |-> Fill(l4), urls |-> HtmlUrls(l5)] :
        l1 \in 0..MaxLen, l2 \in 0..MaxLen, l3 \in 0..MaxLen, l4 \in 0..MaxLen,
        l5 \in 0..MaxLen}

NoPage == [names |-> <<>>, addrs |-> <<>>, zips |-> <<>>, cities |-> <<>>, urls |-> <<>>]

\* a record as scrape_data returns it, with the given name
ItemNamed(name) ==
    [Restaurant |-> name, Adresse |-> <<"s">>, PLZ |-> <<"s">>, Ort |-> <<"s">>,
     Website |-> <<>>, cuisine |-> "International", lat |-> None, lon |-> None,
     walkingTime |-> 999]

\* names the page can hold: plain, with "];" inside, with a backslash, a
\* quote and a tab, with a control character
NameVals == {<<"A">>, <<"A", "]", ";">>, <<"\\", "\"", "tab">>, <<"ctl">>}

DataLists(n) == {[j \in 1..n |-> ItemNamed(f[j])] : f \in [1..n -> NameVals]}

DocTokens == {"let=[", "]", ";", "x"}

NoFile == [exists |-> FALSE, content |-> <<>>]

HostDocs == {NoFile} \cup {[exists |-> TRUE, content |-> c] : c \in SeqsUpTo(DocTokens, MaxDoc)}

\* the host documents the full pipeline is run against
HostDocsMain ==
    {NoFile, [exists |-> TRUE, content |-> <<"x">>],
     [exists |-> TRUE, content |-> <<"x", "let=[", "]", ";", "x">>]}

\* a CSV row
Row(n) ==
    [Restaurant |-> NameOf(n), Adresse |-> <<"s">>, Ort |-> <<"s">>,
     walking_time |-> "", walking_time_raw |-> None, maps_url |-> <<>>]

Rows(n) == [j \in 1..n |-> Row(j)]

\* a row as the enrichment loop leaves it
EnrichedRow(n) ==
    Enriched(Row(n), "?", 999)

TplTokens == {start_tag, end_tag, "{{ item.Restaurant }}", "{{ items_count }}", "x"}

Templates == {NoFile} \cup {[exists |-> TRUE, content |-> c] : c \in SeqsUpTo(TplTokens, MaxTpl)}

\* the templates the full pipeline is run against
TemplatesMain ==
    {NoFile, [exists |-> TRUE, content |-> <<"x">>],
     [exists |-> TRUE,
      content |-> <<"{{ generation_date }}", start_tag, "{{ item.Restaurant }}",
                    "{{ item.walking_time }}", "{{ item.walking_time_raw }}",
                    "{{ item.maps_url }}", end_tag, "{{ items_count }}">>]}

NoOutput == [written |-> FALSE, content |-> <<>>]

NoRt == [pre_loop |-> <<>>, loop_content |-> <<>>, post_loop |-> <<>>,
         rendered_items |-> <<>>, n |-> 0]

----------------------------------------------------------------------------
(* Specification *)

\* python scrape_lunch.py
InitScrape ==
    /\ entry = "scrape" /\ pc = "fetch"
    /\ html \in Pages /\ host \in HostDocsMain
    /\ data = <<>> /\ items = <<>> /\ tplFile = NoFile

\* inject_to_app(data) called twice in a row
InitInject ==
    /\ entry = "inject" /\ pc = "inject"
    /\ html = NoPage /\ host \in HostDocs
    /\ \E n \in 1..MaxData : data \in DataLists(n)
    /\ items = <<>> /\ tplFile = NoFile

\* python enrich_lunch.py
InitEnrich ==
    /\ entry = "enrich" /\ pc = "e_start"
    /\ html = NoPage /\ host = NoFile /\ data = <<>>
    /\ \E n \in 0..MaxItems : items = Rows(n)
    /\ tplFile \in TemplatesMain

\* render_template(items)
InitRender ==
    /\ entry = "render" /\ pc = "render"
    /\ html = NoPage /\ host = NoFile /\ data = <<>>
    /\ \E n \in 0..MaxItems : items = [j \in 1..n |-> EnrichedRow(j)]
    /\ tplFile \in Templates

Init ==
    /\ InitScrape \/ InitInject \/ InitEnrich \/ InitRender
    /\ console = <<>> /\ i = 0 /\ lookups = <<>> /\ hostLog = <<host>>
    /\ k = 0 /\ geoLog = <<>> /\ outFile = NoOutput /\ rt = NoRt

Next ==
    \/ FetchFails
    \/ FetchOk
    \/ \E resp \in GeoResponses(ScrapeCoordLists) : ScrapeRecord(resp)
    \/ ScrapeReturn
    \/ MainInject
    \/ MainNoData
    \/ InjectMissing
    \/ InjectWrite
    \/ InjectBadEscape
    \/ InjectIOError
    \/ MainSuccess
    \/ EnrichNoInput
    \/ EnrichReadFails
    \/ EnrichRead
    \/ \E geo \in GeoResponses(EnrichCoordLists) :
          \E route \in RouteResponses : EnrichRouted(geo, route)
    \/ \E geo \in GeoResponses(EnrichCoordLists) : EnrichUnrouted(geo)
    \/ EnrichRender
    \/ RenderNoTemplate
    \/ RenderReadFails
    \/ RenderNoTags
    \/ RenderSplitFails
    \/ RenderSplit
    \/ RenderItem
    \/ RenderWrite
    \/ RenderWriteFails

Spec == Init /\ [][Next]_vars

----------------------------------------------------------------------------
(* Properties *)

SmallestOf(S) == CHOOSE m \in S : \A x \in S : m <= x

\* scrape_data got past the extraction (line 112)
Extracted == entry = "scrape" /\ Contains(console, "Found items")

\* scrape_data has returned the list it built in the loop
ScrapeReturned == Extracted /\ pc # "loop"

FourLengths == {Len(html.names), Len(html.addrs), Len(html.zips), Len(html.cities)}

\* the document holds a `let appData = [...];` assignment
HasAssignment(doc) ==
    \E p \in 1..Len(doc) : \E j \in (p + 1)..(Len(doc) - 1) :
        doc[p] = "let=[" /\ doc[j] = "]" /\ doc[j + 1] = ";"

C2_FailedGeocodeDefaults ==
    ScrapeReturned =>
        \A j \in 1..Len(data) :
            geoLog[j].failed =>
                data[j].cuisine = "International" /\ data[j].walkingTime = 999

\* the enrichment loop of enrich_lunch.main is over
EnrichLoopOver == entry = "enrich" /\ pc \notin {"e_start", "e_loop"}

\* C3: after the loop of enrich_lunch.main every record has a numeric
\* walking_time_raw; it is 999 with the marker "N/A" or "?" when geocoding
\* yielded no coordinates or the routing lookup failed, and otherwise it is
\* the routed duration in whole minutes, shown as "<minutes> min".
C3_WalkingTimeContract ==
    EnrichLoopOver =>
        \A j \in 1..Len(geoLog) :
            /\ items[j].walking_time_raw # None
            /\ IF geoLog[j].coords = NoCoords \/ (geoLog[j].routed /\ ~geoLog[j].ok)
               THEN /\ items[j].walking_time_raw = Some(999)
                    /\ items[j].walking_time \in {"N/A", "?"}
               ELSE /\ geoLog[j].routed
                    /\ items[j].walking_time_raw = Some(geoLog[j].minutes)
                    /\ items[j].walking_time = ToString(geoLog[j].minutes) \o " min"

\* C4: on a host document that holds the appData assignment, a second
\* inject_to_app with the same records leaves the document as the first did.
C4_InjectIdempotent ==
    (entry = "inject" /\ Len(hostLog) = 3 /\ HasAssignment(hostLog[1].content))
        => hostLog[3] = hostLog[2]

\* C5: the pipeline run whose host document is missing or holds no appData
\* assignment reports an error, reports neither completion nor success, and
\* leaves the document as it was.
C5_FailedInjectionReported ==
    (/\ entry = "scrape" /\ pc = "done" /\ Len(hostLog) = 2
     /\ ~hostLog[1].exists \/ ~HasAssignment(hostLog[1].content))
        => /\ Contains(console, "Error: not found")
           /\ ~Contains(console, "Injection complete.")
           /\ ~Contains(console, "Success!")
           /\ host = hostLog[1]

\* C6: no exception propagates out of main, in either entry point.
C6_NothingEscapesMain == entry \in {"scrape", "enrich"} => pc # "crashed"

\* render_template was called and has returned
RenderReturned == Contains(console, "Rendering items") /\ pc = "done"

RenderErrors ==
    {"Error: Template file not found", "Template tags not found.",
     "Error rendering template: ValueError", "Error rendering template: OSError"}

RenderReported == \E m \in RenderErrors : Contains(console, m)

\* the number of end markers that come after some start marker
EndsAfterStart(t) ==
    Cardinality({j \in 1..Len(t) : t[j] = end_tag /\ \E p \in 1..(j - 1) : t[p] = start_tag})

\* one start marker, one end marker, the start marker first
OneRegion(f) ==
    /\ f.exists
    /\ Count(f.content, start_tag) = 1 /\ Count(f.content, end_tag) = 1
    /\ EndsAfterStart(f.content) = 1

\* one start marker and exactly one end marker after it
OneRegionAfterStart(f) ==
    f.exists /\ Count(f.content, start_tag) = 1 /\ EndsAfterStart(f.content) = 1

\* C7 as stated: the output is written only for a template that exists and
\* holds each marker once, the start marker first; for a missing template, a
\* missing marker, an end marker before the start marker or a repeated
\* marker the failure is reported, the call returns and nothing is written.
C7_WrittenOnlyForOneRegion ==
    /\ outFile.written => OneRegion(tplFile)
    /\ (RenderReturned /\ ~OneRegion(tplFile)) => (~outFile.written /\ RenderReported)

\* C7 amended: the output is written only for a template that exists and
\* holds exactly one start marker and exactly one end marker after it (end
\* markers before the start marker do not count); in every other case the
\* failure is reported, the call returns and nothing is written.
C7_WrittenOnlyForOneRegionAfterStart ==
    /\ outFile.written => OneRegionAfterStart(tplFile)
    /\ (RenderReturned /\ ~OneRegionAfterStart(tplFile))
         => (~outFile.written /\ RenderReported)

\* an output was written from a template that repeats the end marker
C7_Witness == outFile.written /\ Count(tplFile.content, end_tag) = 2

\* a document-level placeholder and what it stands for
DocToken(tok, n) ==
    CASE tok = "{{ generation_date }}" -> <<"<today>">>
      [] tok = "{{ items_count }}" -> <<ToString(n)>>
      [] OTHER -> <<tok>>

\* a placeholder inside the loop body and what it stands for
RowToken(tok, item, n) ==
    CASE tok = "{{ item.walking_time }}" -> <<item.walking_time>>
      [] tok = "{{ item.walking_time_raw }}" -> <<ToString(item.walking_time_raw[1])>>
      [] tok = "{{ item.maps_url }}" -> item.maps_url
      [] tok = "{{ item.Restaurant }}" -> item.Restaurant
      [] tok = "{{ item.Adresse }}" -> item.Adresse
      [] tok = "{{ item.Ort }}" -> item.Ort
      [] OTHER -> DocToken(tok, n)

\* the document the claim describes, for template t and records rs
ExpectedDocument(t, rs) ==
    LET s == CHOOSE p \in 1..Len(t) : t[p] = start_tag
        e == CHOOSE p \in (s + 1)..Len(t) : t[p] = end_tag
        before == SubSeq(t, 1, s - 1)
        body == SubSeq(t, s + 1, e - 1)
        after == SubSeq(t, e + 1, Len(t))
        n == Len(rs)
        copy(r) == Flatten([j \in 1..Len(body) |-> RowToken(body[j], rs[r], n)])
    IN  Flatten([j \in 1..Len(before) |-> DocToken(before[j], n)])
          \o Flatten([r \in 1..n |-> copy(r)])
          \o Flatten([j \in 1..Len(after) |-> DocToken(after[j], n)])

\* C8: the written output is the text before the loop region, one rendered
\* copy of the loop body per record in input order with nothing between
\* them, then the text after the region, the items count standing for the
\* number of records.
C8_RowsInInputOrder ==
    outFile.written => outFile.content = ExpectedDocument(tplFile.content, items)

\* two records rendered through a body that names them, with text around it
C8_Witness ==
    /\ outFile.written /\ Len(items) = 2
    /\ Contains(rt.loop_content, "{{ item.Restaurant }}")
    /\ rt.pre_loop # <<>> \/ rt.post_loop # <<>>

\* the names of the first n restaurants, in directory order
NamesInOrder(n) == [j \in 1..n |-> NameOf(j)[1]]

IsName(tok) == \E j \in 1..(MaxLen + MaxItems) : tok = NameOf(j)[1]

IsGeocode(e) == e[1] = "geocode"

\* C9: in both enrichment loops the records are taken in extraction order,
\* each record's geocoding lookup goes out exactly once and its routing
\* lookup at most once, right after it, and whatever the lookups answer every
\* record is enriched and reaches the output in the same order.
C9_OncePerRecordInOrder ==
    /\ Extracted =>
        /\ lookups = [j \in 1..Len(data) |-> <<"geocode", j - 1>>]
        /\ \A j \in 1..Len(data) : data[j].Restaurant = NameOf(j)
        /\ pc # "loop" => Len(data) = SmallestOf(FourLengths)
        /\ (Len(hostLog) = 2 /\ HasAssignment(hostLog[1].content))
             => SelectSeq(host.content, IsName) = NamesInOrder(Len(data))
    /\ entry = "enrich" =>
        /\ SelectSeq(lookups, IsGeocode) = [j \in 1..k |-> <<"geocode", j - 1>>]
        /\ \A p \in 1..Len(lookups) :
              lookups[p][1] = "route" =>
                  p > 1 /\ lookups[p - 1] = <<"geocode", lookups[p][2]>>
        /\ \A j \in 1..Len(items) :
              /\ items[j].Restaurant = NameOf(j)
              /\ (j <= k) <=> (items[j].walking_time_raw # None)
        /\ EnrichLoopOver => k = Len(items)
        /\ (outFile.written /\ OneRegion(tplFile))
             => SelectSeq(outFile.content, IsName) = NamesInOrder(Len(items))

\* two rows went through the loop, the first without coordinates, the second
\* routed, and the widget was written
C9_Witness ==
    /\ entry = "enrich" /\ outFile.written /\ Len(items) = 2
    /\ geoLog[1].coords = NoCoords
    /\ geoLog[2].routed /\ geoLog[2].ok

\* C10: every record scrape_data returns has both coordinates or neither.
C10_CoordsBothOrNeither ==
    ScrapeReturned =>
        \A j \in 1..Len(data) : (data[j].lat # None) <=> (data[j].lon # None)

====
